---- MODULE Spec2Model ----
(* Model of pinger/app.py: the scheduler loop, the config reload, the     *)
(* probes of one batch and the Prometheus registry they write.            *)
(* Strings that the code inspects (urls, names, numeric strings) are      *)
(* sequences of one-character strings; seconds are integers.              *)
EXTENDS Integers, Sequences, FiniteSets, TLC

(* ---------------------------------------------------------------- *)
(* Bounds                                                           *)
(* ---------------------------------------------------------------- *)
MaxTicks == 2
MaxLatency == 1

(* ---------------------------------------------------------------- *)
(* Program constants                                                *)
(* ---------------------------------------------------------------- *)
ENV_SCRAPE_INTERVAL == 15
ENV_TIMEOUT == 5
DefaultThreshold == 1

(* ---------------------------------------------------------------- *)
(* Python values read from the YAML document                        *)
(* ---------------------------------------------------------------- *)
Num(k) == [ty |-> "num", n |-> k]
Str(chars) == [ty |-> "str", s |-> chars]
None == [ty |-> "none"]
List(xs) == [ty |-> "list", items |-> xs]

Digits == <<"0", "1", "2", "3", "4", "5", "6", "7", "8", "9">>
DigitSet == {Digits[i] : i \in 1..10}
DigitVal(c) == (CHOOSE i \in 1..10 : Digits[i] = c) - 1

RECURSIVE LStrip(_)
LStrip(s) == IF s # <<>> /\ Head(s) = " " THEN LStrip(Tail(s)) ELSE s

RECURSIVE RStrip(_)
RStrip(s) == IF s # <<>> /\ s[Len(s)] = " " THEN RStrip(SubSeq(s, 1, Len(s) - 1)) ELSE s

(* str.strip() *)
Strip(s) == RStrip(LStrip(s))

(* str.startswith(p) *)
StartsWith(s, p) == Len(s) >= Len(p) /\ SubSeq(s, 1, Len(p)) = p

(* position of the first c in s, 0 when there is none *)
Find(s, c) == IF \E i \in 1..Len(s) : s[i] = c
              THEN CHOOSE i \in 1..Len(s) : s[i] = c /\ \A j \in 1..(i - 1) : s[j] # c
              ELSE 0

RECURSIVE NatVal(_)
NatVal(s) == IF s = <<>> THEN 0 ELSE 10 * NatVal(SubSeq(s, 1, Len(s) - 1)) + DigitVal(s[Len(s)])

Unsigned(s) == IF s # <<>> /\ Head(s) \in {"+", "-"} THEN Tail(s) ELSE s

(* int(s) / float(s) accept the string: surrounding blanks, a sign, digits *)
IsNumeric(s) == LET u == Unsigned(Strip(s))
                IN u # <<>> /\ \A i \in 1..Len(u) : u[i] \in DigitSet

NumericVal(s) == LET b == Strip(s)
                 IN IF b # <<>> /\ Head(b) = "-" THEN 0 - NatVal(Unsigned(b)) ELSE NatVal(Unsigned(b))

RECURSIVE NatStr(_)
NatStr(n) == IF n < 10 THEN <<Digits[n + 1]>> ELSE NatStr(n \div 10) \o <<Digits[(n % 10) + 1]>>

(* str(n) of an int, as the f-string formats the port *)
IntStr(n) == IF n < 0 THEN <<"-">> \o NatStr(0 - n) ELSE NatStr(n)

(* float(v): the value, or a raised ValueError / TypeError *)
Float(v) == IF v.ty = "num" THEN [ok |-> TRUE, v |-> v.n]
            ELSE IF v.ty = "str" /\ IsNumeric(v.s) THEN [ok |-> TRUE, v |-> NumericVal(v.s)]
            ELSE [ok |-> FALSE]

(* truth value of a Python object, as `if not targets` tests it *)
Truthy(v) == CASE v.ty = "none" -> FALSE
               [] v.ty = "num" -> v.n # 0
               [] v.ty = "str" -> v.s # <<>>
               [] v.ty = "list" -> v.items # <<>>

(* `for t in targets` raises TypeError on a value that is not iterable *)
Iterable(v) == v.ty = "list"

(* dict.get(k, default) *)
Get(d, k, default) == IF k \in DOMAIN d THEN d[k] ELSE default

(* ---------------------------------------------------------------- *)
(* Inputs: target entries and config documents                      *)
(* ---------------------------------------------------------------- *)
HttpPrefix == <<"h", "t", "t", "p", ":", "/", "/">>
HttpsPrefix == <<"h", "t", "t", "p", "s", ":", "/", "/">>
TcpPrefix == <<"t", "c", "p", ":", "/", "/">>

UrlA == HttpPrefix \o <<"a", "/">>
UrlS == HttpsPrefix \o <<"a", "/">>
UrlH80 == TcpPrefix \o <<"h", ":", "8", "0">>
UrlH080 == TcpPrefix \o <<"h", ":", "0", "8", "0">>

(* well-formed targets *)
TWeb == [name |-> Str(<<"w">>), url |-> Str(UrlA)]
TWebPadded == [name |-> Str(<<"w">>), url |-> Str(<<" ">> \o UrlA \o <<" ">>), threshold_seconds |-> Num(3)]
TSecure == [url |-> Str(UrlS), threshold_seconds |-> Str(<<"2">>)]
TTcp == [name |-> Str(<<"d">>), url |-> Str(UrlH80), threshold_seconds |-> Num(3)]
TTcpZero == [name |-> Str(<<"d">>), url |-> Str(UrlH080)]
(* targets that make run_probe raise *)
TNoColon == [name |-> Str(<<"n">>), url |-> Str(TcpPrefix \o <<"h">>)]
TBadPort == [name |-> Str(<<"p">>), url |-> Str(TcpPrefix \o <<"h", ":", "x">>)]
TTwoColons == [name |-> Str(<<"p">>), url |-> Str(TcpPrefix \o <<"h", ":", "8", ":", "9">>)]
TFtp == [name |-> Str(<<"f">>), url |-> Str(<<"f", "t", "p", ":", "/", "/", "h">>)]
TNoUrl == [name |-> Str(<<"u">>)]
TNumUrl == [name |-> Str(<<"u">>), url |-> Num(7)]
TBadThreshold == [name |-> Str(<<"w">>), url |-> Str(UrlA), threshold_seconds |-> Str(<<"x">>)]

TargetLists ==
    { <<>>,
      <<TWeb>>,
      <<TWeb, TTcp>>,
      <<TSecure, TNoColon>>,
      <<TFtp, TWebPadded>>,
      <<TTcp, TTcpZero>>,
      <<TBadPort, TNoUrl, TBadThreshold, TTwoColons, TNumUrl>> }

(* what open() + yaml.safe_load() yield *)
IOError == [kind |-> "ioerror"]
YAMLError == [kind |-> "yamlerror"]
EmptyDoc == [kind |-> "null"]
ListDoc == [kind |-> "list"]
Dict(d) == [kind |-> "dict", d |-> d]

Documents ==
    { IOError, YAMLError, EmptyDoc, ListDoc }
    \cup { Dict([targets |-> List(l)]) : l \in TargetLists }
    \cup { Dict([targets |-> List(<<TTcp>>), interval_seconds |-> Num(30),
                 request_timeout_seconds |-> Str(<<"2">>)]),
           Dict([interval_seconds |-> Num(30)]),
           Dict([request_timeout_seconds |-> Num(2)]),
           Dict([targets |-> List(<<TTcp>>), interval_seconds |-> Num(30),
                 request_timeout_seconds |-> None]),
           Dict([targets |-> None]),
           Dict([targets |-> Num(5)]) }

(* ---------------------------------------------------------------- *)
(* State                                                            *)
(* ---------------------------------------------------------------- *)
VARIABLES
    state,     \* the module-level dict: targets, interval, timeout
    cfg,       \* what the last load_config call read from TARGETS_FILE
    targets,   \* scheduler local
    interval,  \* scheduler local
    timeout,   \* scheduler local
    pc,        \* where the scheduler coroutine is suspended
    probes,    \* the run_probe tasks of the current gather
    LATENCY,   \* ping_latency_seconds: key -> value, for the label children that exist
    UP,        \* ping_up
    THRESH,    \* ping_latency_threshold_seconds
    ERRORS,    \* ping_errors_total
    resp,      \* the HTTP response produced by the step just taken, if it was a handler
    tick       \* number of loop iterations begun

vars == <<state, cfg, targets, interval, timeout, pc, probes, LATENCY, UP, THRESH, ERRORS, resp, tick>>
sink == <<LATENCY, UP, THRESH, ERRORS>>

EmptyMap == [k \in {} |-> 0]
NoResponse == [route |-> "none"]

(* ---------------------------------------------------------------- *)
(* load_config                                                      *)
(* ---------------------------------------------------------------- *)
Raised == [ok |-> FALSE]

(* load_config with an omitted target list taken from the active one *)
load_config_keeps_targets(doc, st) ==
    IF doc.kind \in {"ioerror", "yamlerror"} THEN Raised
    ELSE IF doc.kind = "list" THEN Raised
    ELSE LET d == IF doc.kind = "null" THEN EmptyMap ELSE doc.d
             tg == Get(d, "targets", st.targets)
             iv == Float(Get(d, "interval_seconds", Num(st.interval)))
             to == Float(Get(d, "request_timeout_seconds", Num(st.timeout)))
         IN IF ~iv.ok \/ ~to.ok THEN Raised
            ELSE [ok |-> TRUE, targets |-> tg, interval |-> iv.v, timeout |-> to.v]

(* load_config with an omitted setting taken from the environment default *)
load_config_env_default(doc, st) ==
    IF doc.kind \in {"ioerror", "yamlerror"} THEN Raised
    ELSE IF doc.kind = "list" THEN Raised
    ELSE LET d == IF doc.kind = "null" THEN EmptyMap ELSE doc.d
             tg == Get(d, "targets", List(<<>>))
             iv == Float(Get(d, "interval_seconds", Num(ENV_SCRAPE_INTERVAL)))
             to == Float(Get(d, "request_timeout_seconds", Num(ENV_TIMEOUT)))
         IN IF ~iv.ok \/ ~to.ok THEN Raised
            ELSE [ok |-> TRUE, targets |-> tg, interval |-> iv.v, timeout |-> to.v]

(* the triple load_config returns, or Raised; st is the global state dict *)
load_config(doc, st) ==
    IF doc.kind \in {"ioerror", "yamlerror"} THEN Raised
    ELSE IF doc.kind = "list" THEN Raised      \* a non-empty list has no .get
    ELSE LET d == IF doc.kind = "null" THEN EmptyMap ELSE doc.d
             tg == Get(d, "targets", List(<<>>))
             iv == Float(Get(d, "interval_seconds", Num(st.interval)))
             to == Float(Get(d, "request_timeout_seconds", Num(st.timeout)))
         IN IF ~iv.ok \/ ~to.ok THEN Raised
            ELSE [ok |-> TRUE, targets |-> tg, interval |-> iv.v, timeout |-> to.v]

(* a reload that stores each field as soon as it is parsed *)
StateAfterReloadFieldwise(doc, st) ==
    IF doc.kind # "dict" THEN st
    ELSE LET iv == Float(Get(doc.d, "interval_seconds", Num(st.interval)))
             to == Float(Get(doc.d, "request_timeout_seconds", Num(st.timeout)))
         IN [targets |-> Get(doc.d, "targets", List(<<>>)),
             interval |-> IF iv.ok THEN iv.v ELSE st.interval,
             timeout |-> IF iv.ok /\ to.ok THEN to.v ELSE st.timeout]

(* the state dict after lines 125-132 of scheduler *)
StateAfterReload(doc, st) ==
    LET r == load_config(doc, st)
    IN IF r.ok THEN [targets |-> r.targets, interval |-> r.interval, timeout |-> r.timeout]
       ELSE st

(* ---------------------------------------------------------------- *)
(* run_probe up to its first await                                  *)
(* ---------------------------------------------------------------- *)
(* str(v), as Metric.labels() converts each label value *)
LabelStr(v) == CASE v.ty = "str" -> v.s
                 [] v.ty = "num" -> IntStr(v.n)
                 [] v.ty = "none" -> <<"N", "o", "n", "e">>

ProbeRaises(e) == [res |-> "raise", err |-> e]

(* run_probe that parses host and port only when it connects *)
ProbePlanConnectsFirst(t) ==
    IF "url" \notin DOMAIN t THEN ProbeRaises("KeyError: url")
    ELSE IF t.url.ty # "str" THEN ProbeRaises("AttributeError: strip")
    ELSE LET url == Strip(t.url.s)
             name == LabelStr(Get(t, "name", Str(url)))
             threshold == Float(Get(t, "threshold_seconds", Num(DefaultThreshold)))
         IN IF ~threshold.ok THEN ProbeRaises("ValueError: threshold")
            ELSE IF StartsWith(url, HttpPrefix) \/ StartsWith(url, HttpsPrefix)
            THEN [res |-> "probe", scheme |-> "http", key |-> <<name, "http", url>>,
                  threshold |-> threshold.v]
            ELSE IF StartsWith(url, TcpPrefix)
            THEN [res |-> "probe", scheme |-> "tcp",
                  key |-> <<name, "tcp", SubSeq(url, 7, Len(url))>>,
                  threshold |-> threshold.v]
            ELSE ProbeRaises("ValueError: unsupported scheme")

ProbePlan(t) ==
    IF "url" \notin DOMAIN t THEN ProbeRaises("KeyError: url")
    ELSE IF t.url.ty # "str" THEN ProbeRaises("AttributeError: strip")
    ELSE LET url == Strip(t.url.s)
             name == LabelStr(Get(t, "name", Str(url)))
             threshold == Float(Get(t, "threshold_seconds", Num(DefaultThreshold)))
         IN IF ~threshold.ok THEN ProbeRaises("ValueError: threshold")
            ELSE IF StartsWith(url, HttpPrefix) \/ StartsWith(url, HttpsPrefix)
            THEN [res |-> "probe", scheme |-> "http", key |-> <<name, "http", url>>,
                  threshold |-> threshold.v]
            ELSE IF StartsWith(url, TcpPrefix)
            THEN LET host_port == SubSeq(url, 7, Len(url))
                     colon == Find(host_port, ":")
                     host == SubSeq(host_port, 1, colon - 1)
                     port == SubSeq(host_port, colon + 1, Len(host_port))
                 IN IF colon = 0 THEN ProbeRaises("ValueError: tcp:// requires host:port")
                    ELSE IF ~IsNumeric(port) THEN ProbeRaises("ValueError: port")
                    ELSE [res |-> "probe", scheme |-> "tcp",
                          key |-> <<name, "tcp", host \o <<":">> \o IntStr(NumericVal(port))>>,
                          threshold |-> threshold.v]
            ELSE ProbeRaises("ValueError: unsupported scheme")

(* ---------------------------------------------------------------- *)
(* Metric children                                                  *)
(* ---------------------------------------------------------------- *)
(* a set that reaches every label child of the metric *)
GaugeSetAll(m, k, v) == [x \in DOMAIN m \cup {k} |-> v]

(* Gauge.labels(k).set(v) *)
GaugeSet(m, k, v) == [x \in DOMAIN m \cup {k} |-> IF x = k THEN v ELSE m[x]]
(* Counter.labels(k).inc() *)
CounterInc(m, k) == [x \in DOMAIN m \cup {k} |-> IF x = k THEN (IF k \in DOMAIN m THEN m[k] ELSE 0) + 1 ELSE m[x]]

(* a success branch cut off after its first write *)
RecordSuccessLatencyOnly(m, key, latency, threshold) ==
    [LATENCY |-> GaugeSet(m.LATENCY, key, latency),
     THRESH |-> m.THRESH,
     UP |-> m.UP,
     ERRORS |-> m.ERRORS]

(* a success branch that also clears the error counter *)
RecordSuccessClearsErrors(m, key, latency, threshold) ==
    [LATENCY |-> GaugeSet(m.LATENCY, key, latency),
     THRESH |-> GaugeSet(m.THRESH, key, threshold),
     UP |-> GaugeSet(m.UP, key, 1),
     ERRORS |-> GaugeSet(m.ERRORS, key, 0)]

(* the four metrics after the success branch of run_probe (lines 96-98, 112-114) *)
RecordSuccess(m, key, latency, threshold) ==
    [LATENCY |-> GaugeSet(m.LATENCY, key, latency),
     THRESH |-> GaugeSet(m.THRESH, key, threshold),
     UP |-> GaugeSet(m.UP, key, 1),
     ERRORS |-> m.ERRORS]

(* an except branch that also zeroes the latency *)
RecordFailureZeroesLatency(m, key) ==
    [LATENCY |-> GaugeSet(m.LATENCY, key, 0),
     THRESH |-> m.THRESH,
     UP |-> GaugeSet(m.UP, key, 0),
     ERRORS |-> CounterInc(m.ERRORS, key)]

(* the four metrics after the except branch of run_probe (lines 100-101, 116-117) *)
RecordFailure(m, key) ==
    [LATENCY |-> m.LATENCY,
     THRESH |-> m.THRESH,
     UP |-> GaugeSet(m.UP, key, 0),
     ERRORS |-> CounterInc(m.ERRORS, key)]

Metrics == [LATENCY |-> LATENCY, THRESH |-> THRESH, UP |-> UP, ERRORS |-> ERRORS]

(* ---------------------------------------------------------------- *)
(* Initial state                                                    *)
(* ---------------------------------------------------------------- *)
Init ==
    /\ state = [targets |-> List(<<>>), interval |-> ENV_SCRAPE_INTERVAL, timeout |-> ENV_TIMEOUT]
    /\ cfg = IOError                 \* nothing read yet
    /\ targets = List(<<>>)          \* the locals are unbound until the first tick
    /\ interval = ENV_SCRAPE_INTERVAL
    /\ timeout = ENV_TIMEOUT
    /\ pc = "startup"
    /\ probes = <<>>
    /\ LATENCY = EmptyMap
    /\ UP = EmptyMap
    /\ THRESH = EmptyMap
    /\ ERRORS = EmptyMap
    /\ resp = NoResponse
    /\ tick = 0

(* ---------------------------------------------------------------- *)
(* scheduler                                                        *)
(* ---------------------------------------------------------------- *)
(* await asyncio.sleep(0.2) returns *)
Startup ==
    /\ pc = "startup"
    /\ pc' = "tick"
    /\ resp' = NoResponse
    /\ UNCHANGED <<state, cfg, targets, interval, timeout, probes, sink, tick>>

(* tasks that are handed the environment default instead of the tick's timeout *)
DispatchEnvTimeout(items, to) ==
    [i \in 1..Len(items) |-> [t |-> items[i], timeout |-> ENV_TIMEOUT, st |-> "pending"]]

(* the tasks gather creates, one per element of the target list *)
Dispatch(items, to) == [i \in 1..Len(items) |-> [t |-> items[i], timeout |-> to, st |-> "pending"]]

(* gather without return_exceptions: the first exception ends the wait *)
GatherFirstException(ps) ==
    \/ \E i \in 1..Len(ps) : ps[i].st = "raised"
    \/ \A i \in 1..Len(ps) : ps[i].st \in {"up", "down", "raised"}

(* gather returns once every task is done, exceptions collected as results *)
GatherDone(ps) == \A i \in 1..Len(ps) : ps[i].st \in {"up", "down", "raised"}

(* one loop iteration from `try:` to its first await: reload, then either
   the sleep of an empty tick, the gather, or an exception out of the loop *)
Tick(doc) ==
    /\ pc = "tick"
    /\ tick < MaxTicks
    /\ tick' = tick + 1
    /\ cfg' = doc
    /\ state' = StateAfterReload(doc, state)
    /\ targets' = state'.targets
    /\ interval' = state'.interval
    /\ timeout' = state'.timeout
    /\ IF ~Truthy(targets') THEN pc' = "sleep" /\ probes' = <<>>
       ELSE IF ~Iterable(targets') THEN pc' = "crashed" /\ probes' = <<>>
       ELSE pc' = "gather" /\ probes' = Dispatch(targets'.items, timeout')
    /\ resp' = NoResponse
    /\ UNCHANGED sink

(* ProbePlan of every target entry the documents can list *)
ProbePlans == [t \in UNION {{items[i] : i \in DOMAIN items} : items \in TargetLists} |-> ProbePlan(t)]

(* a task runs run_probe from its first line to the await of the probe *)
Start(i) ==
    /\ pc = "gather"
    /\ i \in 1..Len(probes)
    /\ probes[i].st = "pending"
    /\ \A j \in 1..(i - 1) : probes[j].st # "pending"     \* tasks start in creation order
    /\ probes' = [probes EXCEPT ![i] = IF ProbePlans[probes[i].t].res = "raise"
                                       THEN [t |-> @.t, timeout |-> @.timeout, st |-> "raised"]
                                       ELSE [t |-> @.t, timeout |-> @.timeout, st |-> "inflight",
                                             plan |-> ProbePlans[@.t], idle |-> 0]]
    /\ resp' = NoResponse
    /\ UNCHANGED <<state, cfg, targets, interval, timeout, pc, sink, tick>>

(* awaiting the probes one after the other: a probe completes only after
   those listed before it *)
AwaitDoneInOrder(ps, i) ==
    /\ ps[i].st = "inflight"
    /\ \A j \in 1..(i - 1) : ps[j].st \in {"up", "down", "raised"}

(* the await of task i completes: its own I/O finished or its own timeout fired *)
AwaitDone(ps, i) == ps[i].st = "inflight"

(* `timeout` seconds pass in which the awaited operation of probe i makes
   no progress: the timer that guards it is due *)
Elapse(i) ==
    /\ pc = "gather"
    /\ i \in 1..Len(probes)
    /\ AwaitDone(probes, i)
    /\ probes[i].idle = 0
    /\ probes' = [probes EXCEPT ![i].idle = 1]
    /\ resp' = NoResponse
    /\ UNCHANGED <<state, cfg, targets, interval, timeout, pc, sink, tick>>

(* the server of an http probe sends some bytes, or a redirect, before the
   timer is handled: httpx applies timeout= to each connect, read and write
   on its own, so the next operation starts with a fresh timer. probe_tcp
   has one wait_for around the whole connect, and no such step. *)
Chunk(i) ==
    /\ pc = "gather"
    /\ i \in 1..Len(probes)
    /\ AwaitDone(probes, i)
    /\ probes[i].plan.scheme = "http"
    /\ probes[i].idle = 1
    /\ probes' = [probes EXCEPT ![i].idle = 0]
    /\ resp' = NoResponse
    /\ UNCHANGED <<state, cfg, targets, interval, timeout, pc, sink, tick>>

(* probe_http / probe_tcp returns the measured latency *)
Succeed(i, latency) ==
    /\ pc = "gather"
    /\ i \in 1..Len(probes)
    /\ AwaitDone(probes, i)
    /\ LET plan == probes[i].plan     \* the task's url, name, threshold and scheme
           m == RecordSuccess(Metrics, plan.key, latency, plan.threshold)
       IN /\ LATENCY' = m.LATENCY
          /\ THRESH' = m.THRESH
          /\ UP' = m.UP
          /\ ERRORS' = m.ERRORS
    /\ latency \in Nat           \* a difference of two perf_counter() readings
    /\ probes' = [probes EXCEPT ![i] = [t |-> @.t, timeout |-> @.timeout, st |-> "up",
                                        latency |-> latency]]
    /\ resp' = NoResponse
    /\ UNCHANGED <<state, cfg, targets, interval, timeout, pc, tick>>

(* probe_http / probe_tcp raises: refused, error status, or its timeout *)
Fail(i, why) ==
    /\ pc = "gather"
    /\ i \in 1..Len(probes)
    /\ AwaitDone(probes, i)
    /\ why \in {"refused", "timeout"}
    /\ why = "timeout" => probes[i].idle = 1
    /\ LET plan == probes[i].plan     \* the task's url, name, threshold and scheme
           m == RecordFailure(Metrics, plan.key)
       IN /\ LATENCY' = m.LATENCY
          /\ THRESH' = m.THRESH
          /\ UP' = m.UP
          /\ ERRORS' = m.ERRORS
    /\ probes' = [probes EXCEPT ![i] = [t |-> @.t, timeout |-> @.timeout, st |-> "down"]]
    /\ resp' = NoResponse
    /\ UNCHANGED <<state, cfg, targets, interval, timeout, pc, tick>>

(* await asyncio.gather(...) returns *)
Join ==
    /\ pc = "gather"
    /\ GatherDone(probes)
    /\ pc' = "sleep"
    /\ resp' = NoResponse
    /\ UNCHANGED <<state, cfg, targets, interval, timeout, probes, sink, tick>>

(* await asyncio.sleep(interval) returns *)
Wake ==
    /\ pc = "sleep"
    /\ pc' = "tick"
    /\ resp' = NoResponse
    /\ UNCHANGED <<state, cfg, targets, interval, timeout, probes, sink, tick>>

(* ---------------------------------------------------------------- *)
(* HTTP handlers                                                    *)
(* ---------------------------------------------------------------- *)
MetricNames == {"ping_latency_seconds", "ping_up", "ping_latency_threshold_seconds", "ping_errors_total"}

Samples(metric, m) == { <<metric, k, m[k]>> : k \in DOMAIN m }

(* generate_latest(REGISTRY): a header per metric, a sample per label child *)
generate_latest ==
    [route |-> "metrics",
     headers |-> MetricNames,
     samples |-> Samples("ping_latency_seconds", LATENCY) \cup Samples("ping_up", UP)
                 \cup Samples("ping_latency_threshold_seconds", THRESH)
                 \cup Samples("ping_errors_total", ERRORS)]

metrics ==
    /\ resp' = generate_latest
    /\ UNCHANGED <<state, cfg, targets, interval, timeout, pc, probes, sink, tick>>

(* len(state["targets"]) raises TypeError on a value without a length *)
health ==
    /\ resp' = IF state.targets.ty = "list"
               THEN [route |-> "health", ok |-> TRUE, targets |-> Len(state.targets.items)]
               ELSE [route |-> "health", error |-> "TypeError"]
    /\ UNCHANGED <<state, cfg, targets, interval, timeout, pc, probes, sink, tick>>

Next ==
    \/ Startup
    \/ \E doc \in Documents : Tick(doc)
    \/ \E i \in DOMAIN probes : Start(i)
    \/ \E i \in DOMAIN probes : Elapse(i)
    \/ \E i \in DOMAIN probes : Chunk(i)
    \/ \E i \in DOMAIN probes : \E latency \in 0..MaxLatency : Succeed(i, latency)
    \/ \E i \in DOMAIN probes : \E why \in {"refused", "timeout"} : Fail(i, why)
    \/ Join
    \/ Wake
    \/ metrics
    \/ health

Spec == Init /\ [][Next]_vars

(* the positions of a batch at which a probe can be awaiting its I/O *)
ProbeIds ==
    UNION {{i \in DOMAIN items : ProbePlan(items[i]).res = "probe"} : items \in TargetLists}

(* a step of the scheduler coroutine: one of its awaits returns *)
SchedulerStep == Startup \/ (\E doc \in Documents : Tick(doc)) \/ Join \/ Wake

(* the timer guarding the awaited operation of probe i runs: it becomes
   due, and once due it is raised into the task *)
TimerStep(i) == Elapse(i) \/ Fail(i, "timeout")

(* the event loop runs every ready callback and every due timer: the
   scheduler's awaits return, created tasks start, time passes for a pending
   operation and its due timeout is raised. Nothing is assumed about the
   servers or about the HTTP handlers being called. *)
LiveSpec ==
    /\ Init
    /\ [][Next]_vars
    /\ WF_vars(SchedulerStep)
    /\ WF_vars(\E i \in DOMAIN probes : Start(i))
    /\ \A i \in ProbeIds : WF_vars(TimerStep(i))

(* ---------------------------------------------------------------- *)
(* Properties                                                       *)
(* ---------------------------------------------------------------- *)
Resolved(p) == p.st \in {"up", "down", "raised"}
KeyOf(p) == ProbePlan(p.t).key
SinkKeys == DOMAIN LATENCY \cup DOMAIN UP \cup DOMAIN THRESH \cup DOMAIN ERRORS
Count(m, k) == IF k \in DOMAIN m THEN m[k] ELSE 0
(* the step is one loop iteration of the scheduler reading cfg' *)
TickStep == pc = "tick" /\ tick' = tick + 1

(* no other probe of the batch has the key of probe i *)
OwnKey(i) ==
    \A j \in DOMAIN probes :
        (j # i /\ ProbePlan(probes[j].t).res = "probe") => KeyOf(probes[j]) # KeyOf(probes[i])

(* C1: whatever the reloads read and whatever the probes do, no exception
   leaves the scheduler loop: it is always starting, reloading, gathering
   or sleeping. *)
C1_SchedulerNeverTerminates == pc \in {"startup", "tick", "gather", "sleep"}

(* C2: a reload that raises leaves the state dict and the three values the
   tick uses as they were; a reload that returns replaces all three fields
   by the returned triple. *)
C2_ReloadAllOrNothing ==
    [][TickStep =>
         LET r == load_config(cfg', state)
         IN IF r.ok
            THEN /\ state' = [targets |-> r.targets, interval |-> r.interval, timeout |-> r.timeout]
                 /\ <<targets', interval', timeout'>> = <<r.targets, r.interval, r.timeout>>
            ELSE /\ state' = state
                 /\ <<targets', interval', timeout'>> = <<targets, interval, timeout>>]_vars

(* a second tick whose reload failed runs the batch of the first tick's snapshot *)
C2_Witness ==
    /\ tick = 2
    /\ cfg \in {IOError, YAMLError}
    /\ pc = "gather"
    /\ state = [targets |-> List(<<TTcp>>), interval |-> 30, timeout |-> 2]
    /\ <<targets, interval, timeout>> = <<state.targets, 30, 2>>
    /\ probes[1].timeout = 2

(* the target's url is a tcp:// address without host:port or has an unsupported scheme *)
MalformedAddress(t) ==
    ProbePlan(t).res = "raise"
    /\ ProbePlan(t).err \in {"ValueError: tcp:// requires host:port", "ValueError: port",
                             "ValueError: unsupported scheme"}

(* C3: once the batch is over, every dispatched target with a malformed
   tcp:// address or an unsupported scheme is down with a counted error:
   a series of its name has up = 0 and an error count of at least 1. *)
C3_MalformedTargetRecordedDown ==
    pc = "sleep" =>
        \A i \in DOMAIN probes :
            MalformedAddress(probes[i].t) =>
                \E k \in DOMAIN UP \cap DOMAIN ERRORS :
                    /\ k[1] = LabelStr(probes[i].t.name)
                    /\ UP[k] = 0
                    /\ ERRORS[k] >= 1

(* C4: once the batch is over, every dispatched probe has applied its one
   record, a success or a failure, to the metrics. *)
C4_EveryProbeRecorded ==
    pc = "sleep" => \A i \in DOMAIN probes : probes[i].st \in {"up", "down"}

(* C5: the step in which a started probe fails adds exactly 1 to the error
   counter of its key, sets its up-state to 0 and changes no latency. *)
C5_FailureRecord ==
    [][\A i \in DOMAIN probes :
          (pc = "gather" /\ probes[i].st = "inflight" /\ probes'[i].st = "down") =>
              /\ ERRORS'[KeyOf(probes[i])] = Count(ERRORS, KeyOf(probes[i])) + 1
              /\ UP'[KeyOf(probes[i])] = 0
              /\ LATENCY' = LATENCY]_vars

(* a key that succeeded with latency 1 and then failed still shows latency 1 *)
C5_Witness ==
    \E i \in DOMAIN probes :
        /\ probes[i].st = "down"
        /\ OwnKey(i)
        /\ KeyOf(probes[i]) \in DOMAIN LATENCY
        /\ LATENCY[KeyOf(probes[i])] = 1
        /\ UP[KeyOf(probes[i])] = 0
        /\ ERRORS[KeyOf(probes[i])] = 1

(* threshold_seconds of the target entry, 1 when it has none *)
ConfiguredThreshold(t) ==
    IF "threshold_seconds" \in DOMAIN t THEN Float(t.threshold_seconds).v ELSE 1

(* C6: the step in which a probe succeeds sets the latency of its key to
   the measured value, which is not negative, the threshold to the target's
   configured threshold (1 by default) and the up-state to 1, and changes
   no error counter. *)
C6_SuccessRecord ==
    [][\A i \in DOMAIN probes :
          (pc = "gather" /\ probes[i].st = "inflight" /\ probes'[i].st = "up") =>
              /\ probes'[i].latency >= 0
              /\ LATENCY'[KeyOf(probes[i])] = probes'[i].latency
              /\ THRESH'[KeyOf(probes[i])] = ConfiguredThreshold(probes[i].t)
              /\ UP'[KeyOf(probes[i])] = 1
              /\ ERRORS' = ERRORS]_vars

(* a key that failed in an earlier tick succeeds: the count of 1 stays *)
C6_Witness ==
    \E i \in DOMAIN probes :
        /\ probes[i].st = "up"
        /\ probes[i].t = TTcp
        /\ OwnKey(i)
        /\ probes[i].latency = 1
        /\ LATENCY[KeyOf(probes[i])] = 1
        /\ THRESH[KeyOf(probes[i])] = 3
        /\ UP[KeyOf(probes[i])] = 1
        /\ KeyOf(probes[i]) \in DOMAIN ERRORS
        /\ ERRORS[KeyOf(probes[i])] = 1

(* C7: a probe that raises changes neither the state of a sibling probe
   nor the metrics and leaves the scheduler in gather; gather returns only
   when every probe of the batch has resolved. *)
C7_ExceptionIsolated ==
    [][/\ (\E i \in DOMAIN probes : pc = "gather" /\ probes[i].st # "raised" /\ probes'[i].st = "raised")
          => /\ pc' = "gather"
             /\ sink' = sink
             /\ \A j \in DOMAIN probes : probes'[j].st # "raised" => probes'[j] = probes[j]
       /\ (pc = "gather" /\ pc' # "gather")
          => \A i \in DOMAIN probes : Resolved(probes[i]) /\ probes'[i] = probes[i]]_vars

(* the first probe raised before the second started; the second went on to
   succeed, its record is in the metrics and the batch is joined *)
C7_Witness ==
    /\ pc = "sleep"
    /\ Len(probes) = 2
    /\ probes[1].st = "raised"
    /\ probes[2].st = "up"
    /\ UP[KeyOf(probes[2])] = 1
    /\ LATENCY[KeyOf(probes[2])] = probes[2].latency

(* C8: while the batch is still being gathered, the record of every probe
   that has resolved is already in the metrics (for a key no sibling shares:
   up = 1 with the measured latency, or up = 0), whatever the other probes
   are doing; and a probe in flight can complete (its I/O finishes or its
   timeout fires, which records it down) whatever the state of its siblings. *)
C8_RecordedOnResolution ==
    pc = "gather" =>
        \A i \in DOMAIN probes :
            /\ probes[i].st = "up" =>
                  /\ KeyOf(probes[i]) \in DOMAIN UP \cap DOMAIN LATENCY \cap DOMAIN THRESH
                  /\ OwnKey(i) => /\ UP[KeyOf(probes[i])] = 1
                                  /\ LATENCY[KeyOf(probes[i])] = probes[i].latency
            /\ probes[i].st = "down" =>
                  /\ KeyOf(probes[i]) \in DOMAIN UP \cap DOMAIN ERRORS
                  /\ OwnKey(i) => UP[KeyOf(probes[i])] = 0
            /\ probes[i].st = "inflight" => AwaitDone(probes, i)

(* one of two probes has resolved and is visible, the other is still in flight *)
C8_Witness ==
    /\ pc = "gather"
    /\ Len(probes) = 2
    /\ probes[1].st = "inflight"
    /\ probes[2].st = "up"
    /\ OwnKey(2)
    /\ UP[KeyOf(probes[2])] = 1
    /\ KeyOf(probes[1]) \notin DOMAIN UP

(* C9: whenever /metrics is served, every key of the registry is rendered
   with all four series: latency, up, threshold and error count. *)
C9_FourSeriesPerKey ==
    resp.route = "metrics" =>
        \A k \in SinkKeys : \A name \in MetricNames :
            \E sample \in resp.samples : sample[1] = name /\ sample[2] = k

(* C10: a reload that returns and whose document has no interval_seconds
   (no request_timeout_seconds) keeps the active interval (timeout); the
   settings start as the environment defaults and change only in a reload
   that returns and whose document carries the setting. *)
C10_OmittedSettingKept ==
    /\ state.interval = ENV_SCRAPE_INTERVAL
    /\ state.timeout = ENV_TIMEOUT
    /\ [][/\ (TickStep /\ load_config(cfg', state).ok)
             => LET d == IF cfg'.kind = "null" THEN EmptyMap ELSE cfg'.d
                IN /\ "interval_seconds" \notin DOMAIN d => state'.interval = state.interval
                   /\ "request_timeout_seconds" \notin DOMAIN d => state'.timeout = state.timeout
          /\ state'.interval # state.interval
             => /\ TickStep /\ cfg'.kind = "dict" /\ "interval_seconds" \in DOMAIN cfg'.d
                /\ state'.interval = Float(cfg'.d.interval_seconds).v
          /\ state'.timeout # state.timeout
             => /\ TickStep /\ cfg'.kind = "dict" /\ "request_timeout_seconds" \in DOMAIN cfg'.d
                /\ state'.timeout = Float(cfg'.d.request_timeout_seconds).v]_vars

(* after a reload set both, a reload without interval_seconds, and one
   without either setting, keep the values of the earlier reload *)
C10_Witness ==
    /\ tick = 2
    /\ cfg = Dict([targets |-> List(<<TWeb>>)])
    /\ state = [targets |-> List(<<TWeb>>), interval |-> 30, timeout |-> 2]
    /\ interval = 30
    /\ timeout = 2

(* number of entries of the active target list *)
ActiveTargetCount == IF state.targets.ty = "list" THEN Len(state.targets.items) ELSE 0

(* C11: whenever /health is served, whatever the reloads before it, the
   response reports ok together with the number of targets of the active
   snapshot. *)
C11_HealthReportsTargetCount ==
    resp.route = "health" =>
        /\ "ok" \in DOMAIN resp
        /\ resp.ok = TRUE
        /\ resp.targets = ActiveTargetCount

(* number of entries of the target list the current tick runs with *)
BatchWidth == IF targets.ty = "list" THEN Len(targets.items) ELSE 0
InFlight(ps) == {i \in DOMAIN ps : ps[i].st = "inflight"}

(* C12: a tick begins only when every probe of the batch before it has
   resolved; at most as many probes are in flight as the tick's target list
   has entries; the batch holds one probe per entry, and a probe that has
   resolved is not run again within its tick. *)
C12_NoOverlappingBatches ==
    [][/\ TickStep => \A i \in DOMAIN probes : Resolved(probes[i])
       /\ Cardinality(InFlight(probes')) <= BatchWidth'
       /\ pc' = "gather" => /\ Len(probes') = BatchWidth'
                            /\ \A i \in DOMAIN probes' : probes'[i].t = targets'.items[i]
       /\ ~TickStep => /\ DOMAIN probes' = DOMAIN probes
                       /\ \A i \in DOMAIN probes : Resolved(probes[i]) => probes'[i] = probes[i]]_vars

(* a second batch is running, two probes wide, both in flight *)
C12_Witness ==
    /\ tick = 2
    /\ pc = "gather"
    /\ BatchWidth = 2
    /\ Cardinality(InFlight(probes)) = 2

(* the url, read as text: a tcp:// address whose rest has no colon or no
   numeric port after its first colon, or a prefix other than http://,
   https://, tcp:// *)
RejectedAddress(t) ==
    /\ "url" \in DOMAIN t
    /\ t.url.ty = "str"
    /\ LET u == Strip(t.url.s)
           rest == SubSeq(u, 7, Len(u))
       IN /\ ~StartsWith(u, HttpPrefix)
          /\ ~StartsWith(u, HttpsPrefix)
          /\ StartsWith(u, TcpPrefix) =>
                \/ Find(rest, ":") = 0
                \/ ~IsNumeric(SubSeq(rest, Find(rest, ":") + 1, Len(rest)))

(* C14: a probe of a target with a malformed tcp:// address or an
   unsupported scheme never awaits a request or a connection: in every
   tick it is either not started yet or has raised. *)
C14_RejectedBeforeIO ==
    \A i \in DOMAIN probes :
        RejectedAddress(probes[i].t) => probes[i].st \in {"pending", "raised"}

(* a batch is over in which the sibling did its I/O and the malformed one raised *)
C14_Witness ==
    /\ pc = "sleep"
    /\ Len(probes) = 2
    /\ probes[1].t = TSecure
    /\ probes[1].st = "up"
    /\ probes[2].t = TNoColon
    /\ RejectedAddress(probes[2].t)
    /\ probes[2].st = "raised"

(* C15: the state dict changes only in the reload of a tick, when no probe
   is pending or in flight; a batch is dispatched with the target list and
   the timeout of the snapshot just loaded, and until the next tick neither
   the tick's list and timeout nor the target and timeout of any probe
   change. *)
C15_SnapshotFixedPerBatch ==
    [][/\ state' # state => TickStep /\ \A i \in DOMAIN probes : Resolved(probes[i])
       /\ pc' = "gather" => /\ targets' = state'.targets
                            /\ timeout' = state'.timeout
                            /\ \A i \in DOMAIN probes' : /\ probes'[i].t = state'.targets.items[i]
                                                         /\ probes'[i].timeout = state'.timeout
       /\ ~TickStep => /\ <<targets', interval', timeout'>> = <<targets, interval, timeout>>
                       /\ \A i \in DOMAIN probes : /\ probes'[i].t = probes[i].t
                                                   /\ probes'[i].timeout = probes[i].timeout]_vars

(* the second tick's probe is in flight with the timeout the first tick loaded *)
C15_Witness ==
    /\ tick = 2
    /\ pc = "gather"
    /\ state.timeout = 2
    /\ timeout = 2
    /\ Len(probes) = 1
    /\ probes[1].st = "inflight"
    /\ probes[1].timeout = 2
    /\ probes[1].t = state.targets.items[1]

(* C16: in every step each metric keeps all its keys, no error counter
   decreases, and every up-state is 0 or 1. *)
C16_SinkOnlyGrows ==
    [][/\ DOMAIN LATENCY \subseteq DOMAIN LATENCY'
       /\ DOMAIN UP \subseteq DOMAIN UP'
       /\ DOMAIN THRESH \subseteq DOMAIN THRESH'
       /\ DOMAIN ERRORS \subseteq DOMAIN ERRORS'
       /\ \A k \in DOMAIN ERRORS : ERRORS'[k] >= ERRORS[k]
       /\ \A k \in DOMAIN UP' : UP'[k] \in {0, 1}]_vars

(* the active list no longer holds the tcp target; its key and count remain *)
C16_Witness ==
    /\ tick = 2
    /\ pc = "sleep"
    /\ state.targets = List(<<TWeb>>)
    /\ Len(probes) = 1
    /\ probes[1].st = "up"
    /\ KeyOf([t |-> TTcp]) \in DOMAIN ERRORS
    /\ ERRORS[KeyOf([t |-> TTcp])] = 1
    /\ UP[KeyOf([t |-> TTcp])] = 0

(* str(name) of a target entry, the url standing in for a missing name *)
NameOf(t) ==
    IF "name" \in DOMAIN t THEN LabelStr(t.name)
    ELSE IF "url" \in DOMAIN t /\ t.url.ty = "str" THEN Strip(t.url.s)
    ELSE <<>>

DistinctNames(ps) ==
    \A i \in DOMAIN ps : \A j \in DOMAIN ps : i # j => NameOf(ps[i].t) # NameOf(ps[j].t)

(* metric m has the same child, or the same lack of one, for key k in m1 and m2 *)
SameAt(m1, m2, k) ==
    /\ k \in DOMAIN m1 <=> k \in DOMAIN m2
    /\ k \in DOMAIN m1 => m1[k] = m2[k]

(* C17: the step in which a probe records its outcome changes no series
   of any key but its own; and in a batch whose targets have pairwise
   distinct names no other probe has that key. *)
C17_WritesOwnKeyOnly ==
    [][\A i \in DOMAIN probes :
          (pc = "gather" /\ probes[i].st = "inflight" /\ probes'[i].st \in {"up", "down"}) =>
              /\ \A k \in SinkKeys \cup SinkKeys' :
                    k # KeyOf(probes[i]) =>
                        /\ SameAt(LATENCY, LATENCY', k)
                        /\ SameAt(UP, UP', k)
                        /\ SameAt(THRESH, THRESH', k)
                        /\ SameAt(ERRORS, ERRORS', k)
              /\ DistinctNames(probes) =>
                    \A j \in DOMAIN probes :
                        (j # i /\ ProbePlan(probes[j].t).res = "probe")
                            => KeyOf(probes[j]) # KeyOf(probes[i])]_vars

(* two probes with distinct names have each written their own key *)
C17_Witness ==
    /\ pc = "sleep"
    /\ Len(probes) = 2
    /\ probes[1].t = TWeb
    /\ probes[2].t = TTcp
    /\ DistinctNames(probes)
    /\ probes[1].st = "up"
    /\ probes[2].st = "down"
    /\ UP[KeyOf(probes[1])] = 1
    /\ UP[KeyOf(probes[2])] = 0
    /\ KeyOf(probes[2]) \notin DOMAIN LATENCY
    /\ KeyOf(probes[1]) \notin DOMAIN ERRORS

(* the document parsed and has no targets field *)
NoTargetsField(doc) == doc.kind = "null" \/ (doc.kind = "dict" /\ "targets" \notin DOMAIN doc.d)
(* the fields of the parsed document *)
FieldsOf(doc) == IF doc.kind = "dict" THEN DOMAIN doc.d ELSE {}
(* the step kept a non-empty target list that the document read did not carry *)
TargetsRetained ==
    /\ TickStep
    /\ state.targets # List(<<>>)
    /\ state'.targets = state.targets
    /\ "targets" \notin FieldsOf(cfg')

(* C18 as stated: a reload that returns for a document without a targets
   field empties the active target list and keeps the previous interval and
   timeout; active targets are retained only when the reload raises. *)
C18_NoTargetsKeepsSettings ==
    [][/\ (TickStep /\ NoTargetsField(cfg') /\ load_config(cfg', state).ok)
          => /\ state'.targets = List(<<>>)
             /\ state'.interval = state.interval
             /\ state'.timeout = state.timeout
       /\ TargetsRetained => ~load_config(cfg', state).ok]_vars

(* C18, amended: a reload that returns for a document without a targets
   field empties the active target list, so the tick probes nothing, and
   keeps the previous interval (timeout) unless the document carries
   interval_seconds (request_timeout_seconds); active targets are retained
   only when the reload raises. *)
C18_NoTargetsEmptiesList ==
    [][/\ (TickStep /\ NoTargetsField(cfg') /\ load_config(cfg', state).ok)
          => /\ state'.targets = List(<<>>)
             /\ targets' = List(<<>>)
             /\ pc' = "sleep"
             /\ probes' = <<>>
             /\ "interval_seconds" \notin FieldsOf(cfg') => state'.interval = state.interval
             /\ "request_timeout_seconds" \notin FieldsOf(cfg') => state'.timeout = state.timeout
       /\ TargetsRetained => ~load_config(cfg', state).ok]_vars

(* an empty document was read after a tick that probed the tcp target: the
   list is empty, interval and timeout are those of the earlier reload *)
C18_Witness ==
    /\ tick = 2
    /\ cfg = EmptyDoc
    /\ pc = "sleep"
    /\ state = [targets |-> List(<<>>), interval |-> 30, timeout |-> 2]
    /\ KeyOf([t |-> TTcp]) \in DOMAIN UP

(* the response has a sample of the metric for the key *)
Rendered(r, name, k) == \E sample \in r.samples : sample[1] = name /\ sample[2] = k
RenderedKeys(r) == {sample[2] : sample \in r.samples}

(* C19: every /metrics response, also one served while a batch is running
   and also for a key two probes of the batch share, shows whole records
   only: a key has a latency exactly when it has a threshold, every key has
   an up-state, up = 1 comes with a latency, up = 0 comes with an error
   count, and an error count is at least 1. *)
C19_WholeRecordsOnly ==
    resp.route = "metrics" =>
        \A k \in RenderedKeys(resp) :
            /\ Rendered(resp, "ping_latency_seconds", k) <=> Rendered(resp, "ping_latency_threshold_seconds", k)
            /\ Rendered(resp, "ping_up", k)
            /\ <<"ping_up", k, 1>> \in resp.samples => Rendered(resp, "ping_latency_seconds", k)
            /\ <<"ping_up", k, 0>> \in resp.samples => Rendered(resp, "ping_errors_total", k)
            /\ \A sample \in resp.samples : sample[1] = "ping_errors_total" => sample[3] >= 1

(* /metrics is served in the middle of a batch whose two probes share a
   key: one has failed, the other is still in flight *)
C19_Witness ==
    /\ resp.route = "metrics"
    /\ pc = "gather"
    /\ Len(probes) = 2
    /\ probes[1].t = TTcp
    /\ probes[2].t = TTcpZero
    /\ KeyOf(probes[1]) = KeyOf(probes[2])
    /\ probes[1].st = "down"
    /\ probes[2].st = "inflight"
    /\ <<"ping_up", KeyOf(probes[1]), 0>> \in resp.samples
    /\ <<"ping_errors_total", KeyOf(probes[1]), 1>> \in resp.samples

(* C13: every batch that is dispatched eventually completes, each probe
   being ended by its own timeout at the latest, and the scheduler reaches
   the interval sleep that precedes the next tick. *)
C13_EveryBatchCompletes == (pc = "gather") ~> (pc = "sleep")

====
